---- MODULE Spec2Model ----
(***************************************************************************)
(* A model of dqn.py: the ReplayMemory class and the Agent's training      *)
(* program (main, load_checkpoint, train, optimize, _target_update,        *)
(* save_checkpoint).                                                       *)
(*                                                                         *)
(* SpecReplay drives one ReplayMemory object through its public methods    *)
(* with arbitrary arguments.  Spec is the program started in train mode.   *)
(***************************************************************************)
EXTENDS Integers, Sequences, FiniteSets, TLC

(***************************************************************************)
(* Bounds.  The module-level settings of dqn.py are far too large to       *)
(* enumerate, so the model runs them scaled down; the source values are    *)
(* given beside each one.                                                  *)
(***************************************************************************)
\* BATCH_SIZE = 16 in dqn.py line 24, scaled.
BATCH_SIZE == 2

\* The largest capacity a ReplayMemory of SpecReplay is constructed with.
MaxCapacity == 3

\* The number of put calls SpecReplay makes on one ReplayMemory.
MaxPuts == 5

\* TARGET_UPDATE_INTERVAL = 500 in dqn.py line 32, scaled.
TARGET_UPDATE_INTERVAL == 2

\* CHECKPOINT_INTERVAL = 5000 in dqn.py line 33, scaled; as in the source it
\* is a multiple of TARGET_UPDATE_INTERVAL.
CHECKPOINT_INTERVALNoMultiple == TARGET_UPDATE_INTERVAL + 1

CHECKPOINT_INTERVAL == 2 * TARGET_UPDATE_INTERVAL

\* ReplayMemory's default capacity, 20000 in dqn.py line 44, scaled: as in the
\* source it exceeds BATCH_SIZE.
DefaultCapacity == BATCH_SIZE + 1

\* Agent's action_repeat and frame_skipping, the defaults of dqn.py line 159.
action_repeat == 4
frame_skipping == 4

\* The length of the window of recent episode lengths, dqn.py line 166.
PlayStepsMaxlen == 5

\* A float is held in thousandths, One being 1.0: EPSILON_START = 1.0 and
\* EPSILON_END = 0.05, dqn.py lines 27 and 28.
One == 1000
EPSILON_START == 1000
EPSILON_END == 50

\* EPSILON_DECAY = 20000 in dqn.py line 29, scaled.
EPSILON_DECAY == 2

\* train's gamma, 0.99 in dqn.py line 228.
gamma == 990

\* train stops counting steps here.
MaxStep == 5

\* The game ends an episode at this tick at the latest.
MaxTick == 9

\* One run of the program plays at most this many episodes.
MaxEpisodes == 2

\* The optimizer takes at most this many steps that change the parameters.
MaxOptimizerSteps == 4

\* The program is interrupted and started again at most this often.
MaxRestarts == 1

\* SpecLatest: the directory holds at most this many checkpoint files.
MaxFiles == 4

\* SpecLatest: the parameter values a checkpoint file holds are 1..MaxFileParam.
MaxFileParam == 2

\* SpecEpsilon: select_action is called at steps 0..MaxEpsStep, over windows of
\* at most MaxWindow episode lengths, each in 0..MaxPlayLength.
MaxEpsStep == 2
MaxWindow == 3
MaxPlayLength == 1

\* SpecOptimize: the stored transitions begin at ticks 0..MaxOptTick, and the
\* networks' parameters are in -MaxOptParam..0.
MaxOptTick == 1
MaxOptParam == 1

(***************************************************************************)
(* State.                                                                  *)
(***************************************************************************)
VARIABLES
    capacity,       \* ReplayMemory.capacity
    memory,         \* ReplayMemory.memory, a deque(maxlen = capacity), oldest first
    _available,     \* ReplayMemory._available
    call,           \* the ReplayMemory method called last, and its argument
    result,         \* what that call returned or raised
    transitions,    \* sample's local `transitions`: the entries drawn, as positions of memory
    history,        \* every Transition ever put, in call order (history variable)
    saidTrue,       \* is_available has returned True before (history variable)
    discipline,     \* whether is_available was queried after each put so far (history variable)
    pc,             \* where the program stands: "main", then the statement of train to run next
    step,           \* Agent.step
    _state_buffer,  \* Agent._state_buffer, a deque(maxlen = action_repeat), oldest first
    _play_steps,    \* Agent._play_steps, a deque(maxlen = 5)
    storage,        \* the parameter values of every live network object, by address
    target,         \* Agent.target: the address of the target network object
    optimizer,      \* the state of Agent.optimizer (RMSprop's accumulated squared gradient)
    files,          \* dqn_checkpoints/: checkpoint_<name>.pth.tar |-> its payload
    tick,           \* the game: env.step calls since the last reset
    epsilon,        \* Agent.epsilon, in thousandths, or NaN
    locals,         \* train's locals: states, action, reward, done, i, play_steps, losses, flags
    ghost           \* history variables of the running process (see InitGhost)

replayVars == <<capacity, memory, _available>>
harnessVars == <<call, result, transitions, history, saidTrue, discipline>>
agentVars == <<pc, step, _state_buffer, _play_steps, storage, target, optimizer, files,
               tick, epsilon, locals, ghost>>
vars == <<replayVars, harnessVars, agentVars>>

Min(a, b) == IF a < b THEN a ELSE b

\* The last n elements of sequence s.
LastN(s, n) == SubSeq(s, Len(s) - n + 1, Len(s))

(***************************************************************************)
(* collections.deque(maxlen = n).append(x): when the deque is full the     *)
(* leftmost element is discarded; a deque of maxlen 0 stays empty.         *)
(***************************************************************************)
DequeAppendDropsNewest(d, maxlen, x) ==
    IF Len(d) >= maxlen THEN d ELSE Append(d, x)

DequeAppend(d, maxlen, x) ==
    IF maxlen = 0 THEN d
    ELSE IF Len(d) = maxlen THEN Append(Tail(d), x)
    ELSE Append(d, x)

(***************************************************************************)
(* ReplayMemory.put: the Transition stored.  state and next_state become   *)
(* float tensors of the same values, the reward a one-element tensor, the  *)
(* action is stored as given.                                              *)
(***************************************************************************)
Transition(state, action, reward, next_state) ==
    [state |-> state, action |-> action, reward |-> <<reward>>, next_state |-> next_state]

put(mem, cap, state, action, reward, next_state) ==
    DequeAppend(mem, cap, Transition(state, action, reward, next_state))

(***************************************************************************)
(* random.sample(population, k): k positions of the population, each drawn *)
(* at most once, in any order.                                             *)
(***************************************************************************)
IsInjective(f) == \A i, j \in DOMAIN f : f[i] = f[j] => i = j

RandomSample(n, k) == {p \in [1..k -> 1..n] : IsInjective(p)}

(***************************************************************************)
(* The return statement of sample: zip transposes the drawn entries into   *)
(* four columns, which become the fields of one Transition.  zip of no     *)
(* entries yields no column, and Transition() without arguments raises     *)
(* TypeError.                                                              *)
(***************************************************************************)
Zip(mem, pos) ==
    [state      |-> [i \in DOMAIN pos |-> mem[pos[i]].state],
     action     |-> [i \in DOMAIN pos |-> mem[pos[i]].action],
     reward     |-> [i \in DOMAIN pos |-> mem[pos[i]].reward],
     next_state |-> [i \in DOMAIN pos |-> mem[pos[i]].next_state]]

None == [tag |-> "None"]
Raised(e) == [tag |-> "raise", error |-> e]
Returned(v) == [tag |-> "return", val |-> v]

\* ReplayMemory.sample(batch_size): the pairs <<transitions, result>> it can end with.
sample(mem, batch_size) ==
    IF batch_size > Len(mem) \/ batch_size < 0
    THEN {<< <<>>, Raised("ValueError") >>}
    ELSE {<< pos, IF Len(pos) = 0 THEN Raised("TypeError") ELSE Returned(Zip(mem, pos)) >> :
             pos \in RandomSample(Len(mem), batch_size)}

\* ReplayMemory.size()
size(mem) == Len(mem)

(***************************************************************************)
(* ReplayMemory.is_available(): <<value returned, new _available>>.        *)
(***************************************************************************)
is_availableNonEmpty(mem, avail) ==
    IF avail THEN <<TRUE, TRUE>>
    ELSE IF Len(mem) > 0 THEN <<TRUE, TRUE>>
    ELSE <<avail, avail>>

is_availableCountsEqual(mem, avail) ==
    IF avail THEN <<TRUE, TRUE>>
    ELSE IF Len(mem) >= BATCH_SIZE THEN <<TRUE, TRUE>>
    ELSE <<avail, avail>>

is_available(mem, avail) ==
    IF avail THEN <<TRUE, TRUE>>
    ELSE IF Len(mem) > BATCH_SIZE THEN <<TRUE, TRUE>>
    ELSE <<avail, avail>>

(***************************************************************************)
(* SpecReplay: one ReplayMemory(capacity), then any sequence of calls.     *)
(***************************************************************************)
PutStates == {0}
PutActions == {0}
PutRewards == 0..1

InitReplay ==
    /\ capacity \in 0..MaxCapacity
    /\ memory = <<>>
    /\ _available = FALSE
    /\ call = [method |-> "__init__", arg |-> capacity]
    /\ result = None
    /\ transitions = <<>>
    /\ history = <<>>
    /\ saidTrue = FALSE
    /\ discipline = "queried"
    /\ pc = "replay"
    /\ step = 0
    /\ _state_buffer = <<>>
    /\ _play_steps = <<>>
    /\ storage = <<>>
    /\ target = "none"
    /\ optimizer = 0
    /\ files = <<>>
    /\ tick = 0
    /\ epsilon = [nan |-> FALSE, v |-> EPSILON_START]
    /\ locals = <<>>
    /\ ghost = <<>>

CallPut ==
    /\ Len(history) < MaxPuts
    /\ \E s \in PutStates, a \in PutActions, r \in PutRewards :
          /\ memory' = put(memory, capacity, s, a, r, s + 1)
          /\ history' = Append(history, Transition(s, a, r, s + 1))
          /\ call' = [method |-> "put", arg |-> Transition(s, a, r, s + 1)]
    /\ result' = None
    /\ transitions' = <<>>
    /\ discipline' = IF discipline = "queried" THEN "pending" ELSE "broken"
    /\ UNCHANGED <<capacity, _available, saidTrue, agentVars>>

\* The entries of mem that are not at one of the positions pos, in order.
Without(mem, pos) ==
    LET keep == {i \in 1..Len(mem) : \A j \in DOMAIN pos : pos[j] # i}
    IN  [i \in 1..Cardinality(keep) |->
            mem[CHOOSE k \in keep : Cardinality({m \in keep : m <= k}) = i]]

CallSampleMoves ==
    /\ \E k \in 0..(Len(memory) + 1) :
          /\ call' = [method |-> "sample", arg |-> k]
          /\ \E out \in sample(memory, k) :
                /\ transitions' = out[1]
                /\ result' = out[2]
                /\ memory' = Without(memory, out[1])
    /\ UNCHANGED <<capacity, _available, history, saidTrue, discipline, agentVars>>

CallSample ==
    /\ \E k \in 0..(Len(memory) + 1) :
          /\ call' = [method |-> "sample", arg |-> k]
          /\ \E out \in sample(memory, k) :
                /\ transitions' = out[1]
                /\ result' = out[2]
    /\ UNCHANGED <<replayVars, history, saidTrue, discipline, agentVars>>

CallSize ==
    /\ call' = [method |-> "size", arg |-> 0]
    /\ result' = Returned(size(memory))
    /\ transitions' = <<>>
    /\ UNCHANGED <<replayVars, history, saidTrue, discipline, agentVars>>

CallIsAvailable ==
    /\ call' = [method |-> "is_available", arg |-> 0]
    /\ result' = Returned(is_available(memory, _available)[1])
    /\ _available' = is_available(memory, _available)[2]
    /\ saidTrue' = (saidTrue \/ is_available(memory, _available)[1])
    /\ discipline' = IF discipline = "pending" THEN "queried" ELSE discipline
    /\ transitions' = <<>>
    /\ UNCHANGED <<capacity, memory, history, agentVars>>

NextReplay == CallPut \/ CallSample \/ CallSize \/ CallIsAvailable

SpecReplay == InitReplay /\ [][NextReplay]_vars

(***************************************************************************)
(* The Agent.                                                              *)
(*                                                                         *)
(* A network object lives at an address of storage; Agent.dqn is created   *)
(* once and never rebound, Agent.target holds the address of the current   *)
(* target object.  A network's parameters are abstracted to one integer,   *)
(* a frame to the game tick it shows.                                      *)
(***************************************************************************)
Addrs == {"net0", "net1", "net2"}
dqn == "net0"

Actions == 0..1          \* env.action_space: FlappyBird has two actions
Grads == {0, 1}          \* a clamped gradient, scaled by the learning rate

\* The reward env.step returns when it takes the game to tick t: the scripted
\* game pays a different reward at every tick of an episode.
Reward(t) == t

\* Environment.get_screen(): the preprocessed frame of the game at tick t.
get_screen(t) == t

\* np.stack / np.array over the frames of a buffer: the stacked state.
recent_states(buf) == buf

\* Agent.add_state
add_stateKeepsAll(buf, frame) == Append(buf, frame)

add_state(buf, frame) == DequeAppend(buf, action_repeat, frame)

\* Agent.get_initial_states: <<states, new _state_buffer>> for first frame f.
RECURSIVE Fill(_, _, _)
Fill(buf, frame, n) == IF n = 0 THEN buf ELSE Fill(DequeAppend(buf, action_repeat, frame), frame, n - 1)

get_initial_states(frame) ==
    << [k \in 1..action_repeat |-> frame], Fill(<<>>, frame, action_repeat) >>

\* The stacked state whose newest frame is the game at tick t: the frames of
\* the action_repeat ticks up to t, the first frame standing in for the ticks
\* before the episode began.
StackAt(t) ==
    [j \in 1..action_repeat |->
        get_screen(IF t - action_repeat + j > 0 THEN t - action_repeat + j ELSE 0)]

\* copy.deepcopy(network at src): <<address of the copy, storage with the copy>>.
deepcopyShares(store, src) == <<src, store>>

deepcopy(store, src) ==
    LET new == CHOOSE a \in Addrs : a \notin DOMAIN store
    IN  <<new, [a \in DOMAIN store \cup {new} |-> IF a = new THEN store[src] ELSE store[a]]>>

\* Storage without the objects nothing refers to any more.
Live(store, refs) == [a \in refs |-> store[a]]

\* Agent._target_update: <<new target, new storage>>.
_target_update(store) ==
    LET c == deepcopy(store, dqn)
    IN  <<c[1], Live(c[2], {dqn, c[1]})>>

\* optimizer.step() with gradient g on the online parameters (the optimizer
\* was constructed over self.dqn.parameters()): <<new storage, new optimizer>>.
optimizer_step(store, opt, g) ==
    << [store EXCEPT ![dqn] = @ - g], opt + g * g >>

\* The decimal digits of n, as the f-string of the checkpoint's name writes them.
RECURSIVE Digits(_)
Digits(n) == IF n < 10 THEN <<n>> ELSE Append(Digits(n \div 10), n % 10)

\* int(...group('number')): the number a run of digits denotes.
RECURSIVE Number(_)
Number(ds) == IF Len(ds) = 0 THEN 0 ELSE 10 * Number(SubSeq(ds, 1, Len(ds) - 1)) + ds[Len(ds)]

\* The checkpoint dict save_checkpoint builds.
save_checkpoint(store, tgt, opt, stp) ==
    [dqn |-> store[dqn], target |-> store[tgt], optimizer |-> opt, step |-> stp]

\* torch.save(checkpoint, filename)
torch_save(fs, name, checkpoint) ==
    [n \in DOMAIN fs \cup {name} |-> IF n = name THEN checkpoint ELSE fs[n]]

\* Agent.load_checkpoint: <<storage, optimizer, step>> after loading checkpoint;
\* load_state_dict copies the values into the existing network objects, the
\* online network first.
load_checkpointKeepsStep(store, tgt, opt, stp, checkpoint) ==
    << [[store EXCEPT ![dqn] = checkpoint.dqn] EXCEPT ![tgt] = checkpoint.target],
       checkpoint.optimizer, stp >>

load_checkpoint(store, tgt, opt, stp, checkpoint) ==
    << [[store EXCEPT ![dqn] = checkpoint.dqn] EXCEPT ![tgt] = checkpoint.target],
       checkpoint.optimizer, checkpoint.step >>

\* The order of two file names as strings: checkpoint_<a>.pth.tar sorts before
\* checkpoint_<b>.pth.tar (a digit sorts before the '.' that ends the number).
LexLess(a, b) ==
    \E i \in 1..Len(b) :
       /\ \A j \in 1..(i - 1) : j <= Len(a) /\ a[j] = b[j]
       /\ i <= Len(a) => a[i] < b[i]
       /\ i > Len(a) => i = Len(a) + 1

\* load_latest_checkpoint's choice among the checkpoint files.
latest_fileByName(fs) == CHOOSE n \in DOMAIN fs : \A m \in DOMAIN fs : m = n \/ LexLess(m, n)

latest_file(fs) == CHOOSE n \in DOMAIN fs : \A m \in DOMAIN fs : Number(m) <= Number(n)

(***************************************************************************)
(* Floats.  A float is NaN or a number of thousandths; a comparison with   *)
(* NaN is false.                                                           *)
(***************************************************************************)
NaN == [nan |-> TRUE, v |-> 0]
Num(v) == [nan |-> FALSE, v |-> v]
Gt(a, b) == ~a.nan /\ ~b.nan /\ a.v > b.v
Ge(a, b) == ~a.nan /\ ~b.nan /\ a.v >= b.v

RECURSIVE Sum(_)
Sum(seq) == IF Len(seq) = 0 THEN 0 ELSE seq[1] + Sum(Tail(seq))

\* Agent.play_step: np.mean(self._play_steps) as the fraction sum / len; the
\* mean of an empty window is NaN.
play_step(ps) == [nan |-> Len(ps) = 0, sum |-> Sum(ps), len |-> Len(ps)]

\* 5 / (1 + self.play_step)
ExplorationBonus(ps) ==
    IF play_step(ps).nan THEN NaN
    ELSE Num((5 * One * play_step(ps).len) \div (play_step(ps).len + play_step(ps).sum))

\* x * math.exp(-1. * stp / EPSILON_DECAY), the factor exp(-1 / EPSILON_DECAY)
\* of one step taken as (2 * EPSILON_DECAY - 1) / (2 * EPSILON_DECAY + 1).
RECURSIVE ExpDecay(_, _)
ExpDecay(x, stp) ==
    IF stp = 0 THEN x
    ELSE (ExpDecay(x, stp - 1) * (2 * EPSILON_DECAY - 1)) \div (2 * EPSILON_DECAY + 1)

\* select_action, lines 195-196: the epsilon of a call.
Epsilon(stp, ps) ==
    IF ExplorationBonus(ps).nan THEN NaN
    ELSE Num(EPSILON_END + ExpDecay(EPSILON_START - EPSILON_END, stp) + ExplorationBonus(ps).v)

\* select_action, line 198: epsilon > random(), random() being in [0.0, 1.0).
CanExplore(eps) == \E r \in {0, One - 1} : Gt(eps, Num(r))
CanExploit(eps) == \E r \in {0, One - 1} : ~Gt(eps, Num(r))

NoLocals ==
    [states |-> <<>>, action |-> 0, reward |-> 0, done |-> FALSE, i |-> 0,
     play_steps |-> 0, losses |-> 0, checkpoint_flag |-> FALSE, target_update_flag |-> FALSE]

NoFile == <<-1>>

(***************************************************************************)
(* History variables of the running process.                               *)
(*   restarts   how often the program was started again                    *)
(*   loaded     the checkpoint main loaded, NoFile when none               *)
(*   episodes   episodes begun by this run of the program                   *)
(*   epInner    select_action calls of the current episode                 *)
(*   epPuts     replay.put calls of the current episode                    *)
(*   epStep0    step when the current episode began                        *)
(*   logged     play_steps of the last episode's log line, -1 before one   *)
(*   tuDue      times step was incremented to a multiple of                *)
(*              TARGET_UPDATE_INTERVAL, tuCalls: _target_update calls      *)
(*   ckptDue    times step was incremented to a multiple of                *)
(*              CHECKPOINT_INTERVAL, ckptCalls: save_checkpoint calls      *)
(*   optimized  optimize calls of the current inner step                   *)
(*   everOptimized  optimize has been called by this run of the program    *)
(*   atSave     per checkpoint file, the agent's fields when it was saved  *)
(*   explored   the last select_action took the random branch              *)
(*   terminal   for every entry of the replay memory, whether done was     *)
(*              true in the inner step that stored it                      *)
(*   envCalls   the env.step calls of the current inner step: the action   *)
(*              passed, the done returned, the frame shown afterwards      *)
(*   sel        step and play_step of the last select_action call; its     *)
(*              step is -1 before the first call                           *)
(***************************************************************************)
InitGhost(restarts, atSave) ==
    [restarts |-> restarts, loaded |-> NoFile, episodes |-> 0, epInner |-> 0, epPuts |-> 0, epStep0 |-> 0,
     logged |-> -1, tuDue |-> 0, tuCalls |-> 0, ckptDue |-> 0, ckptCalls |-> 0,
     optimized |-> 0, everOptimized |-> FALSE, atSave |-> atSave, explored |-> FALSE,
     envCalls |-> <<>>, terminal |-> <<>>,
     sel |-> [step |-> -1, mean |-> play_step(<<>>)]]

\* Agent.__init__ (main's first statement): the online network and its deep
\* copy, the target.
FreshNetworks == deepcopy([a \in {dqn} |-> 0], dqn)

Init ==
    /\ pc = "main"
    /\ step = 0
    /\ _state_buffer = <<>>
    /\ _play_steps = <<>>
    /\ storage = FreshNetworks[2]
    /\ target = FreshNetworks[1]
    /\ optimizer = 0
    /\ files = <<>>
    /\ tick = 0
    /\ epsilon = [nan |-> FALSE, v |-> EPSILON_START]
    /\ locals = NoLocals
    /\ ghost = InitGhost(0, <<>>)
    /\ capacity = DefaultCapacity
    /\ memory = <<>>
    /\ _available = FALSE
    /\ call = [method |-> "__init__", arg |-> DefaultCapacity]
    /\ result = None
    /\ transitions = <<>>
    /\ history = <<>>
    /\ saidTrue = FALSE
    /\ discipline = "queried"

\* main: the checkpoint is loaded, then train is entered.
MainLoad(name) ==
    LET l == load_checkpoint(storage, target, optimizer, step, files[name])
    IN  /\ storage' = l[1]
        /\ optimizer' = l[2]
        /\ step' = l[3]
        /\ ghost' = [ghost EXCEPT !.loaded = name]
        /\ pc' = "loaded"
        /\ UNCHANGED <<replayVars, harnessVars, _state_buffer, _play_steps, target, files,
                       tick, locals, epsilon>>

\* main with --load_latest: load_latest_checkpoint.
MainLoadLatest ==
    /\ pc = "main"
    /\ IF DOMAIN files # {}
       THEN MainLoad(latest_file(files))
       ELSE /\ pc' = "loaded"
            /\ UNCHANGED <<replayVars, harnessVars, step, _state_buffer, _play_steps,
                           storage, target, optimizer, files, tick, epsilon, locals, ghost>>

\* main with --checkpoint <file>: load_checkpoint of an existing file.
MainLoadCheckpoint ==
    /\ pc = "main"
    /\ \E name \in DOMAIN files : MainLoad(name)

\* main with --mode train: agent.train() begins its outer loop.
MainTrain ==
    /\ pc = "loaded"
    /\ pc' = "episode_start"
    /\ UNCHANGED <<replayVars, harnessVars, step, _state_buffer, _play_steps, storage,
                   target, optimizer, files, tick, locals, ghost, epsilon>>

\* train, lines 236-240: a fresh episode.
EpisodeStart ==
    /\ pc = "episode_start"
    /\ ghost.episodes < MaxEpisodes
    /\ tick' = 0
    /\ _state_buffer' = get_initial_states(get_screen(0))[2]
    /\ locals' = [NoLocals EXCEPT !.states = get_initial_states(get_screen(0))[1]]
    /\ ghost' = [ghost EXCEPT !.episodes = @ + 1, !.epInner = 0, !.epPuts = 0, !.epStep0 = step]
    /\ pc' = "select_action"
    /\ UNCHANGED <<replayVars, harnessVars, step, _play_steps, storage, target, optimizer,
                   files, epsilon>>

\* train, line 243, and select_action: epsilon is computed from step and
\* play_step; when epsilon > random() the action is action_space.sample(),
\* else the online network's best action, which can be any of them.
SelectActionDecaysEpsilon ==
    /\ pc = "select_action"
    /\ epsilon' = IF epsilon.v > EPSILON_END THEN Num(epsilon.v - 1) ELSE epsilon
    /\ \E explore \in BOOLEAN, a \in Actions :
          /\ IF explore THEN CanExplore(epsilon') ELSE CanExploit(epsilon')
          /\ locals' = [locals EXCEPT !.action = a, !.i = 0]
          /\ ghost' = [ghost EXCEPT !.epInner = @ + 1, !.optimized = 0, !.explored = explore,
                                    !.envCalls = <<>>,
                                    !.sel = [step |-> step, mean |-> play_step(_play_steps)]]
    /\ pc' = "env_step"
    /\ UNCHANGED <<replayVars, harnessVars, step, _state_buffer, _play_steps, storage,
                   target, optimizer, files, tick>>

SelectAction ==
    /\ pc = "select_action"
    /\ epsilon' = Epsilon(step, _play_steps)
    /\ \E explore \in BOOLEAN, a \in Actions :
          /\ IF explore THEN CanExplore(epsilon') ELSE CanExploit(epsilon')
          /\ locals' = [locals EXCEPT !.action = a, !.i = 0]
          /\ ghost' = [ghost EXCEPT !.epInner = @ + 1, !.optimized = 0, !.explored = explore,
                                    !.envCalls = <<>>,
                                    !.sel = [step |-> step, mean |-> play_step(_play_steps)]]
    /\ pc' = "env_step"
    /\ UNCHANGED <<replayVars, harnessVars, step, _state_buffer, _play_steps, storage,
                   target, optimizer, files, tick>>

\* train, lines 245-252: one pass of the frame-skipping loop.
EnvStepIgnoresDone ==
    /\ pc = "env_step"
    /\ tick' = tick + 1
    /\ \E d \in BOOLEAN :
          /\ tick' >= MaxTick => d
          /\ locals' = [locals EXCEPT !.reward = Reward(tick'), !.done = d, !.i = @ + 1]
          /\ ghost' = [ghost EXCEPT !.envCalls =
                          Append(@, [action |-> locals.action, done |-> d,
                                     frame |-> get_screen(tick'),
                                     reward |-> Reward(tick')])]
          /\ pc' = IF locals.i + 1 = frame_skipping THEN "put" ELSE "env_step"
    /\ _state_buffer' = add_state(_state_buffer, get_screen(tick'))
    /\ UNCHANGED <<replayVars, harnessVars, step, _play_steps, storage, target, optimizer,
                   files, epsilon>>

EnvStepAccumulatesReward ==
    /\ pc = "env_step"
    /\ tick' = tick + 1
    /\ \E d \in BOOLEAN :
          /\ tick' >= MaxTick => d
          /\ locals' = [locals EXCEPT !.reward = (IF locals.i = 0 THEN 0 ELSE @) + Reward(tick'), !.done = d, !.i = @ + 1]
          /\ ghost' = [ghost EXCEPT !.envCalls =
                          Append(@, [action |-> locals.action, done |-> d,
                                     frame |-> get_screen(tick'),
                                     reward |-> Reward(tick')])]
          /\ pc' = IF d \/ locals.i + 1 = frame_skipping THEN "put" ELSE "env_step"
    /\ _state_buffer' = add_state(_state_buffer, get_screen(tick'))
    /\ UNCHANGED <<replayVars, harnessVars, step, _play_steps, storage, target, optimizer,
                   files, epsilon>>

EnvStep ==
    /\ pc = "env_step"
    /\ tick' = tick + 1
    /\ \E d \in BOOLEAN :
          /\ tick' >= MaxTick => d
          /\ locals' = [locals EXCEPT !.reward = Reward(tick'), !.done = d, !.i = @ + 1]
          /\ ghost' = [ghost EXCEPT !.envCalls =
                          Append(@, [action |-> locals.action, done |-> d,
                                     frame |-> get_screen(tick'),
                                     reward |-> Reward(tick')])]
          /\ pc' = IF d \/ locals.i + 1 = frame_skipping THEN "put" ELSE "env_step"
    /\ _state_buffer' = add_state(_state_buffer, get_screen(tick'))
    /\ UNCHANGED <<replayVars, harnessVars, step, _play_steps, storage, target, optimizer,
                   files, epsilon>>

\* train, lines 255-259: the transition is stored.
PutKeepsStates ==
    /\ pc = "put"
    /\ memory' = put(memory, capacity, locals.states, locals.action, locals.reward,
                     recent_states(_state_buffer))
    /\ ghost' = [ghost EXCEPT !.epPuts = @ + 1,
                               !.terminal = DequeAppend(@, capacity, locals.done)]
    /\ pc' = "is_available"
    /\ UNCHANGED <<capacity, _available, harnessVars, step, _state_buffer, _play_steps,
                   storage, target, optimizer, files, tick, epsilon, locals>>

Put ==
    /\ pc = "put"
    /\ memory' = put(memory, capacity, locals.states, locals.action, locals.reward,
                     recent_states(_state_buffer))
    /\ locals' = [locals EXCEPT !.states = recent_states(_state_buffer)]
    /\ ghost' = [ghost EXCEPT !.epPuts = @ + 1,
                               !.terminal = DequeAppend(@, capacity, locals.done)]
    /\ pc' = "is_available"
    /\ UNCHANGED <<capacity, _available, harnessVars, step, _state_buffer, _play_steps,
                   storage, target, optimizer, files, tick, epsilon>>

\* train, line 262.
IsAvailableUnlessDone ==
    /\ pc = "is_available"
    /\ _available' = is_available(memory, _available)[2]
    /\ pc' = IF is_available(memory, _available)[1] /\ ~locals.done
             THEN "optimize" ELSE "done_check"
    /\ UNCHANGED <<capacity, memory, harnessVars, step, _state_buffer, _play_steps, storage,
                   target, optimizer, files, tick, locals, ghost, epsilon>>

IsAvailable ==
    /\ pc = "is_available"
    /\ _available' = is_available(memory, _available)[2]
    /\ pc' = IF is_available(memory, _available)[1] THEN "optimize" ELSE "done_check"
    /\ UNCHANGED <<capacity, memory, harnessVars, step, _state_buffer, _play_steps, storage,
                   target, optimizer, files, tick, locals, ghost, epsilon>>

\* train, lines 263-264, and optimize: a batch is sampled (an exception ends
\* the program), then the loss, the clamped gradients and one optimizer step
\* on the online network.  The batch is not used after optimize returns, and
\* the gradient g stands for what the batch and the two networks make it.
Optimize ==
    /\ pc = "optimize"
    /\ IF \E out \in sample(memory, BATCH_SIZE) : out[2].tag = "raise"
       THEN /\ pc' = "raised"
            /\ result' = Raised("ValueError")
            /\ UNCHANGED <<storage, optimizer, locals>>
       ELSE /\ \E g \in Grads :
                  /\ optimizer + g * g <= MaxOptimizerSteps
                  /\ storage' = optimizer_step(storage, optimizer, g)[1]
                  /\ optimizer' = optimizer_step(storage, optimizer, g)[2]
            /\ locals' = [locals EXCEPT !.losses = @ + 1]
            /\ result' = None
            /\ pc' = "done_check"
    /\ ghost' = [ghost EXCEPT !.optimized = @ + 1, !.everOptimized = TRUE]
    /\ UNCHANGED <<replayVars, call, transitions, history, saidTrue, discipline, step,
                   _state_buffer, _play_steps, target, files, tick, epsilon>>

\* train, lines 266-271: the episode ends on done, else the step is counted.
DoneCheckCountsFirst ==
    /\ pc = "done_check"
    /\ step < MaxStep
    /\ step' = step + 1
    /\ locals' = [locals EXCEPT !.play_steps = @ + 1]
    /\ ghost' = [ghost EXCEPT
                   !.tuDue = IF (step + 1) % TARGET_UPDATE_INTERVAL = 0 THEN @ + 1 ELSE @,
                   !.ckptDue = IF (step + 1) % CHECKPOINT_INTERVAL = 0 THEN @ + 1 ELSE @]
    /\ pc' = IF locals.done THEN "episode_end" ELSE "target_update"
    /\ UNCHANGED <<replayVars, harnessVars, _state_buffer, _play_steps, storage, target,
                   optimizer, files, tick, epsilon>>

DoneCheck ==
    /\ pc = "done_check"
    /\ IF locals.done
       THEN /\ pc' = "episode_end"
            /\ UNCHANGED <<step, locals, ghost>>
       ELSE /\ step < MaxStep
            /\ step' = step + 1
            /\ locals' = [locals EXCEPT !.play_steps = @ + 1]
            /\ ghost' = [ghost EXCEPT
                   !.tuDue = IF (step + 1) % TARGET_UPDATE_INTERVAL = 0 THEN @ + 1 ELSE @,
                   !.ckptDue = IF (step + 1) % CHECKPOINT_INTERVAL = 0 THEN @ + 1 ELSE @]
            /\ pc' = "target_update"
    /\ UNCHANGED <<replayVars, harnessVars, _state_buffer, _play_steps, storage, target,
                   optimizer, files, tick, epsilon>>

\* train, lines 274-276.
TargetUpdateEveryStep ==
    /\ pc = "target_update"
    /\ target' = _target_update(storage)[1]
    /\ storage' = _target_update(storage)[2]
    /\ locals' = [locals EXCEPT !.target_update_flag = TRUE]
    /\ ghost' = [ghost EXCEPT !.tuCalls = @ + 1]
    /\ pc' = "checkpoint"
    /\ UNCHANGED <<replayVars, harnessVars, step, _state_buffer, _play_steps, optimizer,
                   files, tick, epsilon>>

TargetUpdate ==
    /\ pc = "target_update"
    /\ IF step % TARGET_UPDATE_INTERVAL = 0
       THEN /\ target' = _target_update(storage)[1]
            /\ storage' = _target_update(storage)[2]
            /\ locals' = [locals EXCEPT !.target_update_flag = TRUE]
            /\ ghost' = [ghost EXCEPT !.tuCalls = @ + 1]
       ELSE UNCHANGED <<target, storage, locals, ghost>>
    /\ pc' = "checkpoint"
    /\ UNCHANGED <<replayVars, harnessVars, step, _state_buffer, _play_steps, optimizer,
                   files, tick, epsilon>>

\* train, lines 279-281.
CheckpointNamedByInterval ==
    /\ pc = "checkpoint"
    /\ IF step % CHECKPOINT_INTERVAL = 0
       THEN /\ files' = torch_save(files, Digits(step \div CHECKPOINT_INTERVAL),
                                   save_checkpoint(storage, target, optimizer, step))
            /\ locals' = [locals EXCEPT !.checkpoint_flag = TRUE]
            /\ ghost' = [ghost EXCEPT
                  !.ckptCalls = @ + 1,
                  !.atSave = torch_save(@, Digits(step \div CHECKPOINT_INTERVAL),
                                [dqn |-> storage[dqn], target |-> storage[target],
                                 optimizer |-> optimizer, step |-> step])]
       ELSE UNCHANGED <<files, locals, ghost>>
    /\ pc' = "select_action"
    /\ UNCHANGED <<replayVars, harnessVars, step, _state_buffer, _play_steps, storage,
                   target, optimizer, tick, epsilon>>

Checkpoint ==
    /\ pc = "checkpoint"
    /\ IF step % CHECKPOINT_INTERVAL = 0
       THEN /\ files' = torch_save(files, Digits(step),
                                   save_checkpoint(storage, target, optimizer, step))
            /\ locals' = [locals EXCEPT !.checkpoint_flag = TRUE]
            /\ ghost' = [ghost EXCEPT
                  !.ckptCalls = @ + 1,
                  !.atSave = torch_save(@, Digits(step),
                                [dqn |-> storage[dqn], target |-> storage[target],
                                 optimizer |-> optimizer, step |-> step])]
       ELSE UNCHANGED <<files, locals, ghost>>
    /\ pc' = "select_action"
    /\ UNCHANGED <<replayVars, harnessVars, step, _state_buffer, _play_steps, storage,
                   target, optimizer, tick, epsilon>>

\* train, lines 283-291: the episode's length is recorded and logged; the
\* locals of the finished episode are not read again.
EpisodeEnd ==
    /\ pc = "episode_end"
    /\ _play_steps' = DequeAppend(_play_steps, PlayStepsMaxlen, locals.play_steps)
    /\ ghost' = [ghost EXCEPT !.logged = locals.play_steps]
    /\ locals' = NoLocals
    /\ pc' = "episode_start"
    /\ UNCHANGED <<replayVars, harnessVars, step, _state_buffer, storage, target, optimizer,
                   files, tick, epsilon>>

\* train ends only by an interrupt from outside; the program is then started
\* again over the checkpoint files it left.
Restart ==
    /\ pc \notin {"main", "replay"}
    /\ ghost.restarts < MaxRestarts
    /\ pc' = "main"
    /\ step' = 0
    /\ _state_buffer' = <<>>
    /\ _play_steps' = <<>>
    /\ storage' = FreshNetworks[2]
    /\ target' = FreshNetworks[1]
    /\ optimizer' = 0
    /\ tick' = 0
    /\ epsilon' = [nan |-> FALSE, v |-> EPSILON_START]
    /\ locals' = NoLocals
    /\ ghost' = InitGhost(ghost.restarts + 1, ghost.atSave)
    /\ memory' = <<>>
    /\ _available' = FALSE
    /\ transitions' = <<>>
    /\ result' = None
    /\ UNCHANGED <<files, capacity, call, history, saidTrue, discipline>>

Next ==
    \/ MainLoadLatest \/ MainLoadCheckpoint \/ MainTrain
    \/ EpisodeStart \/ SelectAction \/ EnvStep \/ Put \/ IsAvailable
    \/ Optimize \/ DoneCheck \/ TargetUpdate \/ Checkpoint
    \/ EpisodeEnd \/ Restart

Spec == Init /\ [][Next]_vars

(***************************************************************************)
(* SpecLatest: the program is started over a directory of checkpoint files *)
(* that earlier runs left, and loads the latest one.  A file is named by   *)
(* the step it was saved at, a multiple of CHECKPOINT_INTERVAL, and holds  *)
(* the parameters of that time.                                            *)
(***************************************************************************)
Payload(n, v) == [dqn |-> 0 - v, target |-> 0 - v, optimizer |-> v, step |-> n]

InitLatest ==
    /\ \E S \in SUBSET (1..MaxFiles) : \E v \in [S -> 1..MaxFileParam] :
          files = [name \in {Digits(k * CHECKPOINT_INTERVAL) : k \in S}
                      |-> Payload(Number(name), v[Number(name) \div CHECKPOINT_INTERVAL])]
    /\ pc = "main"
    /\ step = 0
    /\ _state_buffer = <<>>
    /\ _play_steps = <<>>
    /\ storage = FreshNetworks[2]
    /\ target = FreshNetworks[1]
    /\ optimizer = 0
    /\ tick = 0
    /\ epsilon = [nan |-> FALSE, v |-> EPSILON_START]
    /\ locals = NoLocals
    /\ ghost = InitGhost(0, <<>>)
    /\ capacity = DefaultCapacity
    /\ memory = <<>>
    /\ _available = FALSE
    /\ call = [method |-> "__init__", arg |-> DefaultCapacity]
    /\ result = None
    /\ transitions = <<>>
    /\ history = <<>>
    /\ saidTrue = FALSE
    /\ discipline = "queried"

NextLatest == MainLoadLatest

SpecLatest == InitLatest /\ [][NextLatest]_vars

(***************************************************************************)
(* SpecEpsilon: select_action is called on an agent at any step and with   *)
(* any window of recent episode lengths; between two calls training has    *)
(* moved step, the window and the online parameters.                       *)
(***************************************************************************)
Windows == UNION {[1..n -> 0..MaxPlayLength] : n \in 0..Min(MaxWindow, PlayStepsMaxlen)}

InitEpsilon ==
    /\ pc = "select_action"
    /\ step \in 0..MaxEpsStep
    /\ _play_steps \in Windows
    /\ _state_buffer = get_initial_states(get_screen(0))[2]
    /\ storage = FreshNetworks[2]
    /\ target = FreshNetworks[1]
    /\ optimizer = 0
    /\ files = <<>>
    /\ tick = 0
    /\ epsilon = [nan |-> FALSE, v |-> EPSILON_START]
    /\ locals = [NoLocals EXCEPT !.states = get_initial_states(get_screen(0))[1]]
    /\ ghost = InitGhost(0, <<>>)
    /\ capacity = DefaultCapacity
    /\ memory = <<>>
    /\ _available = FALSE
    /\ call = [method |-> "__init__", arg |-> DefaultCapacity]
    /\ result = None
    /\ transitions = <<>>
    /\ history = <<>>
    /\ saidTrue = FALSE
    /\ discipline = "queried"

\* What train does to the inputs of select_action between two calls.
TrainOn ==
    /\ pc = "env_step"
    /\ step' \in 0..MaxEpsStep
    /\ _play_steps' \in Windows
    /\ \E w \in 0..1 : storage' = [storage EXCEPT ![dqn] = 0 - w]
    /\ ghost' = [ghost EXCEPT !.epInner = 0]
    /\ pc' = "select_action"
    /\ UNCHANGED <<replayVars, harnessVars, _state_buffer, target, optimizer, files, tick,
                   epsilon, locals>>

NextEpsilon == SelectAction \/ TrainOn

SpecEpsilon == InitEpsilon /\ [][NextEpsilon]_vars

(***************************************************************************)
(* SpecOptimize: one call of optimize, its locals visible between the loss *)
(* (lines 295-308) and the optimizer step (lines 310-322), on a replay     *)
(* memory of transitions as train stores them.  A network with parameters  *)
(* p maps a stacked state to one value per action; what matters here is    *)
(* which network is applied to which state, so the map is a simple one.    *)
(***************************************************************************)
forward(p, state) == [a \in Actions |-> p * (a + 1) + state[action_repeat]]

\* tensor.max(1)[0]: the largest of the values of one row.
MaxValue(row) == CHOOSE v \in {row[a] : a \in DOMAIN row} : \A a \in DOMAIN row : row[a] <= v

\* line 305: self.dqn(state_batch).gather(1, action_batch)
q_values(store, batch) ==
    [i \in DOMAIN batch.state |-> forward(store[dqn], batch.state[i])[batch.action[i]]]

\* line 306: self.target(next_state_batch).max(1)[0]
target_valuesOfOnline(store, tgt, batch) ==
    [i \in DOMAIN batch.next_state |-> MaxValue(forward(store[dqn], batch.next_state[i]))]

target_values(store, tgt, batch) ==
    [i \in DOMAIN batch.next_state |-> MaxValue(forward(store[tgt], batch.next_state[i]))]

\* line 308: reward_batch + (target_values * gamma), in thousandths.
expected_values(store, tgt, batch) ==
    [i \in DOMAIN batch.reward |->
        One * batch.reward[i][1] + target_values(store, tgt, batch)[i] * gamma]

\* The transitions train stores: the stacks of before and after an inner step
\* of k env.step calls that began at tick t; an inner step of fewer than
\* frame_skipping calls ended its episode.
StoredAt(t, k) == Transition(StackAt(t), 0, Reward(t + k), StackAt(t + k))

InitOptimize ==
    /\ pc = "optimize"
    /\ capacity = DefaultCapacity
    /\ \E ts \in [1..DefaultCapacity -> (0..MaxOptTick) \X {1, frame_skipping}] :
          /\ memory = [i \in 1..DefaultCapacity |-> StoredAt(ts[i][1], ts[i][2])]
          /\ ghost = [InitGhost(0, <<>>) EXCEPT
                         !.terminal = [i \in 1..DefaultCapacity |-> ts[i][2] < frame_skipping]]
    /\ _available = TRUE
    /\ \E p, q \in 0..MaxOptParam :
          /\ target = FreshNetworks[1]
          /\ storage = [a \in {dqn, target} |-> IF a = dqn THEN 0 - p ELSE 0 - q]
    /\ optimizer = 0
    /\ step = 0
    /\ _state_buffer = StackAt(0)
    /\ _play_steps = <<>>
    /\ files = <<>>
    /\ tick = 0
    /\ epsilon = NaN
    /\ locals = NoLocals
    /\ call = [method |-> "__init__", arg |-> DefaultCapacity]
    /\ result = None
    /\ transitions = <<>>
    /\ history = <<>>
    /\ saidTrue = FALSE
    /\ discipline = "queried"

\* optimize, lines 295-308: the batch, the two networks' values and the
\* values the loss compares the online network's to.
OptimizeLoss ==
    /\ pc = "optimize"
    /\ \E out \in sample(memory, BATCH_SIZE) :
          /\ transitions' = out[1]
          /\ IF out[2].tag = "raise"
             THEN /\ result' = out[2]
                  /\ pc' = "raised"
             ELSE /\ result' = Returned(
                        [transitions |-> out[2].val,
                         q_values |-> q_values(storage, out[2].val),
                         target_values |-> target_values(storage, target, out[2].val),
                         expected |-> expected_values(storage, target, out[2].val)])
                  /\ pc' = "optimize_step"
    /\ UNCHANGED <<replayVars, call, history, saidTrue, discipline, step, _state_buffer,
                   _play_steps, storage, target, optimizer, files, tick, epsilon, locals, ghost>>

\* optimize, lines 310-322: the clamped gradient step on the online network.
OptimizeStep ==
    /\ pc = "optimize_step"
    /\ \E g \in Grads :
          /\ optimizer + g * g <= MaxOptimizerSteps
          /\ storage' = optimizer_step(storage, optimizer, g)[1]
          /\ optimizer' = optimizer_step(storage, optimizer, g)[2]
    /\ transitions' = <<>>
    /\ result' = None
    /\ pc' = "done_check"
    /\ UNCHANGED <<replayVars, call, history, saidTrue, discipline, step, _state_buffer,
                   _play_steps, target, files, tick, epsilon, locals, ghost>>

NextOptimize == OptimizeLoss \/ OptimizeStep

SpecOptimize == InitOptimize /\ [][NextOptimize]_vars

(***************************************************************************)
(* Properties of ReplayMemory, checked under SpecReplay.                   *)
(***************************************************************************)

\* C1: FIFO eviction.  For every capacity N and every sequence of put calls
\* the buffer never holds more than N transitions, size() reports that number,
\* and the buffer is exactly the last min(N, number of puts) transitions put,
\* in insertion order; so once more than N puts were made, size() = N.
ReplayFifoEviction ==
    /\ Len(memory) <= capacity
    /\ Len(memory) = Min(capacity, Len(history))
    /\ memory = LastN(history, Min(capacity, Len(history)))
    /\ (call.method = "size" => result = Returned(Len(memory)) /\ result.val <= capacity)

\* C1 witness: capacity 3, five puts, the buffer holds puts #3, #4, #5 and
\* size() has just answered 3; put #1 differed from put #3, so the buffer is
\* not the first three puts.
ReplayFifoEvictionWitness ==
    /\ capacity = 3
    /\ Len(history) = 5
    /\ memory = <<history[3], history[4], history[5]>>
    /\ history[1] # history[3]
    /\ call.method = "size"
    /\ result = Returned(3)

\* C2 as stated: queried after each put, is_available() answers false for the
\* first BATCH_SIZE puts and true for every put after them, and never answers
\* false after it has answered true.
IsAvailableAfterBatchSizePuts ==
    /\ [](call.method = "is_available" /\ discipline = "queried"
            => result.val = (Len(history) > BATCH_SIZE))
    /\ [][saidTrue /\ call'.method = "is_available" => result'.val = TRUE]_vars

\* C2 amended: is_available() answers true exactly when the buffer holds more
\* than BATCH_SIZE transitions, that is after more than BATCH_SIZE puts into a
\* memory whose capacity exceeds BATCH_SIZE (a memory of capacity <= BATCH_SIZE
\* never becomes available), and never answers false after it has answered true.
IsAvailableLatch ==
    /\ [](call.method = "is_available"
            => result.val = (capacity > BATCH_SIZE /\ Len(history) > BATCH_SIZE))
    /\ [][saidTrue /\ call'.method = "is_available" => result'.val = TRUE]_vars

\* C2 witness: is_available() was queried after each of MaxPuts puts, the
\* buffer has evicted entries since, and the answer is still true.
IsAvailableLatchWitness ==
    /\ call.method = "is_available"
    /\ discipline = "queried"
    /\ Len(history) = MaxPuts
    /\ Len(history) > capacity
    /\ saidTrue
    /\ result = Returned(TRUE)

\* C3: sample(k) called with k <= size() returns exactly k transitions, each
\* one an entry of the buffer, and no entry of the buffer twice.
SampleReturnsKDistinct ==
    call.method = "sample" /\ call.arg <= Len(memory)
        => /\ result.tag = "return"
           /\ Len(transitions) = call.arg
           /\ \A i \in DOMAIN transitions : transitions[i] \in 1..Len(memory)
           /\ IsInjective(transitions)
           /\ result.val = Zip(memory, transitions)
           /\ \A f \in {"state", "action", "reward", "next_state"} :
                 Len(result.val[f]) = call.arg

\* C3 for k >= 1, the part of it the code keeps.
SampleReturnsKDistinctFromOne ==
    call.method = "sample" /\ call.arg >= 1 => SampleReturnsKDistinct

\* C3's failing call: sample(0) on a memory that holds transitions.
SampleZeroRaises ==
    call = [method |-> "sample", arg |-> 0] /\ Len(memory) > 0 /\ result = Raised("TypeError")

\* C12: a call of sample leaves the buffer's entries, their order, size() and
\* the availability latch as they were, and no call but put changes what is
\* stored: every entry in the buffer is, field by field, as put stored it.
SampleLeavesMemory ==
    /\ [][call'.method = "sample"
             => /\ memory' = memory
                /\ size(memory') = size(memory)
                /\ _available' = _available
                /\ capacity' = capacity]_vars
    /\ [][call'.method # "put" => memory' = memory]_vars
    /\ [][call'.method = "put"
             => \A i \in 1..(Len(memory') - 1) :
                   memory'[i] = memory[i + Len(memory) + 1 - Len(memory')]]_vars

\* C12 witness: sample has returned a batch of BATCH_SIZE entries drawn from a
\* full buffer whose latch is set, and the buffer still holds the last
\* capacity transitions put.
SampleLeavesMemoryWitness ==
    /\ call.method = "sample"
    /\ result.tag = "return"
    /\ Len(transitions) = BATCH_SIZE
    /\ capacity > BATCH_SIZE
    /\ Len(memory) = capacity
    /\ _available
    /\ memory = LastN(history, capacity)
    /\ Len(history) > capacity

(***************************************************************************)
(* Properties of the training program, checked under Spec.                 *)
(***************************************************************************)
InTrain == pc \notin {"replay", "main", "loaded"}

\* A step of train, as opposed to one that starts the program again.
TrainStep == InTrain /\ pc' # "main"

\* A step in which _target_update runs.
TargetUpdateRuns == TrainStep /\ pc = "target_update" /\ ghost'.tuCalls # ghost.tuCalls

\* C4: whenever train calls optimize the replay memory holds at least
\* BATCH_SIZE transitions, so replay.sample(BATCH_SIZE) never raises for
\* having too few: the is_available() guard rules it out in every inner step
\* of every episode.
OptimizeHasBatch ==
    /\ pc = "optimize" => size(memory) >= BATCH_SIZE
    /\ pc # "raised"

\* C4 witness: optimize is called in a later episode, on a full memory.
OptimizeHasBatchWitness ==
    /\ pc = "optimize"
    /\ ghost.episodes >= 2
    /\ size(memory) = capacity
    /\ size(memory) >= BATCH_SIZE

\* C5: the target network never shares storage with the online network; a
\* _target_update leaves the target's parameters equal to the online
\* parameters of that instant; and no other statement of train, an optimize
\* step in particular, changes the target object or its parameters.
TargetIndependentOfOnline ==
    /\ [](pc # "replay" => target # dqn)
    /\ [][TargetUpdateRuns
             => storage'[target'] = storage[dqn] /\ storage'[dqn] = storage[dqn]]_vars
    /\ [][TrainStep /\ ~TargetUpdateRuns
             => target' = target /\ storage'[target'] = storage[target]]_vars

\* C5 witness: after a _target_update, optimize steps have moved the online
\* parameters away from the target's.
TargetIndependentOfOnlineWitness ==
    /\ pc = "done_check"
    /\ ghost.tuCalls >= 1
    /\ ghost.optimized = 1
    /\ target # dqn
    /\ storage[dqn] # storage[target]

\* C6: every increment of step to a multiple of TARGET_UPDATE_INTERVAL is
\* followed, before the next action is selected, by one _target_update that
\* copies the online parameters, and train replaces the target at no other
\* point.
TargetUpdateEveryInterval ==
    /\ [](InTrain /\ pc # "target_update" => ghost.tuCalls = ghost.tuDue)
    /\ [](pc = "checkpoint" /\ step % TARGET_UPDATE_INTERVAL = 0
             => locals.target_update_flag /\ storage[target] = storage[dqn])
    /\ [][TrainStep /\ (target' # target \/ ghost'.tuCalls # ghost.tuCalls)
             => /\ pc = "target_update"
                /\ step % TARGET_UPDATE_INTERVAL = 0
                /\ ghost'.tuCalls = ghost.tuCalls + 1
                /\ storage'[target'] = storage[dqn]]_vars

\* C6 witness: the second target update of a run, at step
\* 2 * TARGET_UPDATE_INTERVAL, is done when the next action is selected.
TargetUpdateEveryIntervalWitness ==
    /\ pc = "select_action"
    /\ step = 2 * TARGET_UPDATE_INTERVAL
    /\ ghost.tuCalls = 2
    /\ ghost.tuDue = 2

\* C7: an episode whose n-th inner step is the first to report done has
\* stored n transitions, raised step by n - 1 and recorded and logged
\* play_steps = n - 1.
EpisodeAccounting ==
    (pc = "episode_end" \/ (pc = "episode_start" /\ ghost.epInner >= 1))
        => /\ ghost.epPuts = ghost.epInner
           /\ step = ghost.epStep0 + ghost.epInner - 1
           /\ pc = "episode_end" => locals.play_steps = ghost.epInner - 1
           /\ pc = "episode_start"
                 => /\ ghost.logged = ghost.epInner - 1
                    /\ _play_steps[Len(_play_steps)] = ghost.epInner - 1

\* C7 witness: an episode that ended in its third inner step.
EpisodeAccountingWitness ==
    /\ pc = "episode_start"
    /\ ghost.epInner = 3
    /\ ghost.epPuts = 3
    /\ step = ghost.epStep0 + 2
    /\ ghost.logged = 2

\* C7's scenario: done on the very first step.
EpisodeAccountingFirstStepDone ==
    /\ pc = "episode_start"
    /\ ghost.epInner = 1
    /\ ghost.epPuts = 1
    /\ step = ghost.epStep0
    /\ ghost.logged = 0

\* C8: from get_initial_states on the frame buffer holds exactly
\* action_repeat frames; get_initial_states fills it with the first frame,
\* and every add_state drops the oldest frame, keeps the others in order and
\* puts the new frame last.
FrameBufferWindow ==
    /\ [](InTrain /\ pc # "episode_start" => Len(_state_buffer) = action_repeat)
    /\ [][pc = "episode_start" /\ pc' = "select_action"
             => _state_buffer' = [k \in 1..action_repeat |-> get_screen(0)]]_vars
    /\ [][pc = "env_step" /\ pc' # "main"
             => /\ Len(_state_buffer') = action_repeat
                /\ _state_buffer'[action_repeat] = get_screen(tick')
                /\ \A k \in 1..(action_repeat - 1) :
                      _state_buffer'[k] = _state_buffer[k + 1]]_vars

\* C8 witness: more frames were pushed than the buffer holds, and it holds
\* the newest action_repeat of them, oldest first.
FrameBufferWindowWitness ==
    /\ pc = "put"
    /\ tick > action_repeat
    /\ _state_buffer = [k \in 1..action_repeat |-> get_screen(tick - action_repeat + k)]

\* C9: every increment of step to a multiple of CHECKPOINT_INTERVAL is
\* followed by one save_checkpoint, to the file named by that step, with that
\* step in its payload; train writes no file at any other step.
CheckpointEveryInterval ==
    /\ [](InTrain /\ pc \notin {"target_update", "checkpoint"}
             => ghost.ckptCalls = ghost.ckptDue)
    /\ [](\A name \in DOMAIN files :
             /\ name = Digits(files[name].step)
             /\ Number(name) = files[name].step
             /\ files[name].step % CHECKPOINT_INTERVAL = 0
             /\ files[name].step > 0)
    /\ [][files' # files \/ (TrainStep /\ ghost'.ckptCalls # ghost.ckptCalls)
             => /\ pc = "checkpoint"
                /\ step % CHECKPOINT_INTERVAL = 0
                /\ ghost'.ckptCalls = ghost.ckptCalls + 1
                /\ Digits(step) \in DOMAIN files'
                /\ files'[Digits(step)].step = step
                /\ \A name \in DOMAIN files :
                      name # Digits(step) => name \in DOMAIN files' /\ files'[name] = files[name]]_vars

\* C9 witness: step has reached CHECKPOINT_INTERVAL and the file named by it
\* was written once.
CheckpointEveryIntervalWitness ==
    /\ pc = "select_action"
    /\ step = CHECKPOINT_INTERVAL
    /\ ghost.ckptCalls = 1
    /\ DOMAIN files = {Digits(step)}
    /\ files[Digits(step)].step = step

\* C10: after load_checkpoint of a file save_checkpoint wrote, the online
\* parameters, the target parameters, the optimizer state and step are what
\* they were when the file was saved.
CheckpointRoundTrip ==
    pc = "loaded" /\ ghost.loaded # NoFile
        => /\ storage[dqn] = ghost.atSave[ghost.loaded].dqn
           /\ storage[target] = ghost.atSave[ghost.loaded].target
           /\ optimizer = ghost.atSave[ghost.loaded].optimizer
           /\ step = ghost.atSave[ghost.loaded].step

\* C10 witness: a restarted program has loaded a checkpoint of trained
\* parameters, none of the four fields being what Agent.__init__ sets.
CheckpointRoundTripWitness ==
    /\ pc = "loaded"
    /\ ghost.loaded # NoFile
    /\ ghost.restarts = 1
    /\ storage[dqn] # 0
    /\ storage[target] # 0
    /\ optimizer # 0
    /\ step = CHECKPOINT_INTERVAL

(***************************************************************************)
(* Properties of load_latest_checkpoint, checked under SpecLatest.         *)
(***************************************************************************)
\* C11: load_latest_checkpoint loads the file whose step number is the
\* largest as a number, whatever the order of the names as strings; over an
\* empty directory it raises nothing and leaves the parameters, the
\* optimizer state and step as Agent.__init__ set them.
LoadLatestPicksLargestStep ==
    pc = "loaded"
        => /\ result.tag # "raise"
           /\ IF DOMAIN files = {}
              THEN /\ ghost.loaded = NoFile
                   /\ storage[dqn] = 0 /\ storage[target] = 0 /\ optimizer = 0 /\ step = 0
              ELSE /\ ghost.loaded \in DOMAIN files
                   /\ \A m \in DOMAIN files : Number(m) <= Number(ghost.loaded)
                   /\ storage[dqn] = files[ghost.loaded].dqn
                   /\ storage[target] = files[ghost.loaded].target
                   /\ optimizer = files[ghost.loaded].optimizer
                   /\ step = files[ghost.loaded].step

\* C11 witness: the file loaded is not the one whose name sorts last.
LoadLatestPicksLargestStepWitness ==
    /\ pc = "loaded"
    /\ ghost.loaded \in DOMAIN files
    /\ \E m \in DOMAIN files : LexLess(ghost.loaded, m) /\ Number(m) < Number(ghost.loaded)
    /\ step = Number(ghost.loaded)

\* C11's cold start: no file, nothing loaded.
LoadLatestColdStart ==
    /\ pc = "loaded"
    /\ DOMAIN files = {}
    /\ ghost.loaded = NoFile
    /\ step = 0

(***************************************************************************)
(* Properties of select_action's epsilon, checked under SpecEpsilon.       *)
(***************************************************************************)
\* Two means of windows are the same number.
SameMean(a, b) ==
    \/ a.nan /\ b.nan
    \/ ~a.nan /\ ~b.nan /\ a.sum * b.len = b.sum * a.len

\* C13: the epsilon select_action computes depends on step and on the
\* average of the recent episode lengths only: a call at the step and the
\* average of the call before it computes the same epsilon, whatever else has
\* changed; and at the same average (the same exploration bonus) a call at a
\* step no smaller than that of the call before it computes no larger an
\* epsilon.
EpsilonPureAndMonotone ==
    [][pc = "select_action" /\ pc' = "env_step" /\ ghost.sel.step >= 0
          /\ SameMean(ghost.sel.mean, ghost'.sel.mean)
          => /\ ghost'.sel.step = ghost.sel.step => epsilon' = epsilon
             /\ ghost'.sel.step >= ghost.sel.step => ~Gt(epsilon', epsilon)]_vars

\* C13 witness: select_action has computed an epsilon and is called again at a
\* later step, with another window of the same average and other online
\* parameters, for which epsilon is strictly smaller.
EpsilonPureAndMonotoneWitness ==
    /\ pc = "select_action"
    /\ ghost.sel.step >= 0
    /\ step > ghost.sel.step
    /\ _play_steps # <<>>
    /\ Len(_play_steps) # ghost.sel.mean.len
    /\ SameMean(ghost.sel.mean, play_step(_play_steps))
    /\ storage[dqn] # 0
    /\ epsilon = Epsilon(ghost.sel.step, _play_steps)
    /\ Gt(epsilon, Epsilon(step, _play_steps))

(***************************************************************************)
(* Further properties of the training program, checked under Spec.         *)
(***************************************************************************)
\* C14: in every inner step select_action is called once and its action is
\* passed unchanged to k consecutive env.step calls, 1 <= k <= frame_skipping;
\* every call pushes one frame to the frame buffer; k < frame_skipping only
\* when the k-th call returned done, and no call follows one that returned
\* done.
FrameSkipping ==
    LET calls == ghost.envCalls
        k == Len(calls)
    IN  /\ pc = "env_step"
           => /\ k = locals.i /\ k < frame_skipping
              /\ \A j \in 1..k : ~calls[j].done
        /\ pc \in {"env_step", "put"}
           => /\ ghost.epInner = ghost.epPuts + 1
              /\ \A j \in 1..k : calls[j].action = locals.action
              /\ \A j \in 1..k : calls[j].frame = get_screen(tick - k + j)
              /\ \A j \in 1..action_repeat :
                    _state_buffer[j] = IF j + k > action_repeat
                                       THEN calls[j + k - action_repeat].frame
                                       ELSE locals.states[j + k]
        /\ pc = "put"
           => /\ 1 <= k /\ k <= frame_skipping
              /\ k < frame_skipping => calls[k].done
              /\ \A j \in 1..(k - 1) : ~calls[j].done
              /\ locals.done = calls[k].done

\* C14 witness: an inner step that was cut short, its second env.step having
\* returned done.
FrameSkippingWitness ==
    /\ pc = "put"
    /\ Len(ghost.envCalls) = 2
    /\ ghost.envCalls[2].done
    /\ ~ghost.envCalls[1].done
    /\ ghost.envCalls[1].action = ghost.envCalls[2].action
    /\ ghost.epInner >= 2

\* C14: an inner step of all frame_skipping env.step calls.
FrameSkippingFull ==
    /\ pc = "put"
    /\ Len(ghost.envCalls) = frame_skipping
    /\ ~locals.done

\* C15: every inner step stores one Transition, whose state is the stacked
\* state from before the inner step's env.step calls and whose next_state is
\* the frame buffer after them; the first Transition of an episode has the
\* first frame action_repeat times as its state, and every later one has the
\* next_state of the Transition stored before it as its state.
TransitionChaining ==
    /\ [](pc = "select_action" => locals.states = recent_states(_state_buffer))
    /\ [](pc \in {"is_available", "optimize", "done_check"}
             => LET n == Len(memory)
                    m == Min(ghost.epPuts, n)
                    k == Len(ghost.envCalls)
                IN  /\ ghost.epPuts = ghost.epInner
                    /\ n >= 1
                    /\ memory[n].state = StackAt(tick - k)
                    /\ memory[n].next_state = StackAt(tick)
                    /\ memory[n].next_state = recent_states(_state_buffer)
                    /\ ghost.epPuts <= n
                          => memory[n - m + 1].state = [j \in 1..action_repeat |-> get_screen(0)]
                    /\ \A j \in (n - m + 2)..n : memory[j].state = memory[j - 1].next_state)
    /\ [][TrainStep
             => IF pc = "put"
                THEN /\ Len(memory') = Min(capacity, Len(memory) + 1)
                     /\ \A j \in 1..(Len(memory') - 1) :
                           memory'[j] = memory[j + Len(memory) + 1 - Len(memory')]
                ELSE memory' = memory]_vars

\* C15 witness: the third Transition of an episode has been stored, and the
\* episode's three Transitions are in the replay memory.
TransitionChainingWitness ==
    /\ pc = "is_available"
    /\ ghost.epPuts = 3
    /\ Len(memory) = 3
    /\ memory[1].state = [j \in 1..action_repeat |-> get_screen(0)]
    /\ memory[2].state = memory[1].next_state
    /\ memory[3].state = memory[2].next_state
    /\ memory[3].state # memory[2].state

\* C16: in every inner step optimize runs once if is_available() answered
\* true and not at all otherwise, after the Transition was put and before the
\* done check and the step increment; once optimize has run, it runs in every
\* later inner step, the terminal ones and those of later episodes included.
OptimizeScheduling ==
    /\ pc = "optimize"
          => /\ ghost.optimized = 0
             /\ ghost.epPuts = ghost.epInner
             /\ step = ghost.epStep0 + ghost.epInner - 1
             /\ _available
    /\ pc = "done_check"
          => /\ ghost.optimized = IF _available THEN 1 ELSE 0
             /\ ghost.epPuts = ghost.epInner
             /\ step = ghost.epStep0 + ghost.epInner - 1
             /\ ghost.everOptimized => ghost.optimized = 1
    /\ pc \in {"env_step", "put", "is_available"} => ghost.optimized = 0
    /\ pc \in {"target_update", "checkpoint"} /\ ghost.everOptimized => ghost.optimized = 1
    /\ ghost.everOptimized => _available
    /\ InTrain /\ _available /\ pc # "optimize" => ghost.everOptimized

\* C16 witness: the terminal first inner step of a later episode, in which
\* optimize has run, as it had at least twice before.
OptimizeSchedulingWitness ==
    /\ pc = "done_check"
    /\ locals.done
    /\ ghost.episodes >= 2
    /\ ghost.epInner = 1
    /\ ghost.optimized = 1
    /\ locals.losses = 1
    /\ storage[dqn] <= 0 - 3

\* C16: an inner step before the memory is available, without optimize.
OptimizeSchedulingNotYet ==
    /\ pc = "done_check"
    /\ ~_available
    /\ ghost.optimized = 0
    /\ size(memory) = BATCH_SIZE

\* C18: every checkpoint file train has written holds target parameters
\* equal to its online parameters: whenever a checkpoint is due a target
\* update was due in the same inner step and has run just before, with no
\* optimizer step in between.
CheckpointTargetEqualsOnline ==
    /\ \A name \in DOMAIN files : files[name].target = files[name].dqn
    /\ pc = "checkpoint" /\ step % CHECKPOINT_INTERVAL = 0
          => /\ step % TARGET_UPDATE_INTERVAL = 0
             /\ locals.target_update_flag
             /\ storage[target] = storage[dqn]

\* C18 witness: a checkpoint of trained parameters was written, and the
\* online network has moved on since, away from the target.
CheckpointTargetEqualsOnlineWitness ==
    /\ pc = "done_check"
    /\ DOMAIN files # {}
    /\ \E name \in DOMAIN files : files[name].dqn # 0 /\ files[name].target = files[name].dqn
    /\ ghost.ckptCalls = 1
    /\ storage[target] # storage[dqn]

\* C19: at every select_action call of train, those of the first episode
\* included, the epsilon computed is a number, at least EPSILON_END, so that
\* the random branch can be taken at that call.
EpsilonWellDefined ==
    InTrain /\ ghost.sel.step >= 0
        => /\ ~epsilon.nan
           /\ Ge(epsilon, Num(EPSILON_END))
           /\ CanExplore(epsilon)

\* C19 from the second episode on, where the window of episode lengths is not
\* empty.
EpsilonWellDefinedAfterFirstEpisode ==
    InTrain /\ ghost.sel.step >= 0 /\ _play_steps # <<>> /\ pc \notin {"episode_start", "select_action"}
        => /\ ~epsilon.nan
           /\ Ge(epsilon, Num(EPSILON_END))
           /\ CanExplore(epsilon)

\* C19's failing call: select_action in the first episode, the window of
\* episode lengths empty: epsilon is NaN and the random branch is closed.
EpsilonNaNInFirstEpisode ==
    /\ pc = "env_step"
    /\ ghost.episodes = 1
    /\ _play_steps = <<>>
    /\ epsilon.nan
    /\ ~CanExplore(epsilon)
    /\ ~ghost.explored

\* C20: the reward stored in the Transition of an inner step is the reward
\* returned by the last env.step call of that inner step (the
\* frame_skipping-th call, or the call that returned done); the rewards of the
\* earlier calls of the inner step are not added to it and are kept nowhere.
LastRewardStored ==
    /\ pc = "put"
          => LET calls == ghost.envCalls
                 k == Len(calls)
             IN  /\ k >= 1
                 /\ k = frame_skipping \/ calls[k].done
                 /\ locals.reward = calls[k].reward
    /\ pc \in {"is_available", "optimize", "done_check"}
          => LET calls == ghost.envCalls
                 k == Len(calls)
                 n == Len(memory)
             IN  /\ n >= 1 /\ k >= 1
                 /\ memory[n].reward = <<calls[k].reward>>
                 /\ locals.reward = calls[k].reward
                 /\ \A j \in 1..(k - 1) :
                       /\ memory[n].reward # <<calls[j].reward>>
                       /\ locals.reward # calls[j].reward
                 /\ k >= 2 => memory[n].reward
                                 # <<Sum([j \in 1..k |-> calls[j].reward])>>

\* C20 witness: a Transition stored after an inner step of all frame_skipping
\* env.step calls, holding the reward of the last of them.
LastRewardStoredWitness ==
    /\ pc = "is_available"
    /\ Len(ghost.envCalls) = frame_skipping
    /\ memory[Len(memory)].reward = <<ghost.envCalls[frame_skipping].reward>>
    /\ ghost.envCalls[1].reward # ghost.envCalls[frame_skipping].reward

\* C20: an inner step cut short by done stores the reward of the call that
\* returned done.
LastRewardStoredAtDone ==
    /\ pc = "is_available"
    /\ Len(ghost.envCalls) = 2
    /\ ghost.envCalls[2].done
    /\ memory[Len(memory)].reward = <<ghost.envCalls[2].reward>>

(***************************************************************************)
(* Properties of optimize, checked under SpecOptimize.                     *)
(***************************************************************************)
\* C17: a stored Transition has the four fields state, action, reward and
\* next_state and no terminal flag, and for every transition of the batch,
\* those stored in the terminal inner step of an episode included, optimize
\* sets against the online value the value reward + gamma * the largest value
\* the target network gives to next_state.
NoTerminalMasking ==
    /\ \A i \in DOMAIN memory : DOMAIN memory[i] = {"state", "action", "reward", "next_state"}
    /\ pc = "optimize_step"
          => /\ Len(transitions) = BATCH_SIZE
             /\ \A i \in 1..BATCH_SIZE :
                   LET tr == memory[transitions[i]]
                   IN  /\ result.val.expected[i] =
                             One * tr.reward[1]
                             + gamma * MaxValue(forward(storage[target], tr.next_state))
                       /\ \E a \in Actions :
                             result.val.expected[i] =
                                One * tr.reward[1]
                                + gamma * forward(storage[target], tr.next_state)[a]
                       /\ \A a \in Actions :
                             result.val.expected[i] >=
                                One * tr.reward[1]
                                + gamma * forward(storage[target], tr.next_state)[a]

\* C17 witness: the batch holds a transition stored in a terminal inner step,
\* and its value is not its reward alone; the target network differs from the
\* online one.
NoTerminalMaskingWitness ==
    /\ pc = "optimize_step"
    /\ storage[target] # storage[dqn]
    /\ \E i \in 1..BATCH_SIZE :
          /\ ghost.terminal[transitions[i]]
          /\ result.val.expected[i] # One * memory[transitions[i]].reward[1]
    /\ \E i \in 1..BATCH_SIZE : ~ghost.terminal[transitions[i]]

====
